---- MODULE Spec2Model ----
(***************************************************************************)
(* Model of the two entry points of the repository:                        *)
(*   top_down_pose_tracking_input.py  (pose inference + JSON round trip)   *)
(*   vis_pose_tracking_result.py      (visualization-only replay)          *)
(*                                                                         *)
(* A Python dict whose key may be missing is modelled by giving the key an *)
(* optional value: the empty sequence <<>> when the key is absent and the  *)
(* one-element sequence <<v>> when it is present with value v.  Unbound    *)
(* local variables of main() are modelled the same way.                    *)
(* Numbers that are floats in the program (bbox coordinates, keypoints)    *)
(* are integers counting units of 10^-4, so that round(x, 3) is a real     *)
(* operation on them.                                                      *)
(***************************************************************************)
EXTENDS Integers, Sequences, FiniteSets, TLC

\* ------------------------------------------------------------------ bounds
MaxAnns == 2
MaxFrames == 2
MaxPose == 2

\* --------------------------------------------------------------- optionals
Has(o) == Len(o) = 1
Val(o) == o[1]
None == <<>>
Some(v) == <<v>>

\* ---------------------------------------------------------- input records
\* The nested `attributes` object of an annotation record.
AttrFull == [track_id |-> Some(7), occluded |-> Some(TRUE),
             activity |-> Some("run"), image_id |-> Some(2)]

\* The shapes in which the frame index of a record may be given.
FrameShapes ==
    { [frame_id |-> None,    image_id |-> None],
      [frame_id |-> Some(0), image_id |-> None],
      [frame_id |-> Some(1), image_id |-> None],
      [frame_id |-> None,    image_id |-> Some(1)],
      [frame_id |-> None,    image_id |-> Some(2)],
      [frame_id |-> Some(1), image_id |-> Some(1)] }

\* Where track_id, occluded and activity live: "direct" (top-level keys),
\* "nested" (under attributes), "both" (both, with different values),
\* "bare" (neither; no attributes object at all).
FieldShapes == {"direct", "nested", "both", "bare"}

MkRecord(cat, fs, shape) ==
    [category_id |-> cat,
     frame_id    |-> fs.frame_id,
     image_id    |-> fs.image_id,
     track_id    |-> IF shape \in {"direct", "both"} THEN Some(5) ELSE None,
     occluded    |-> IF shape \in {"direct", "both"} THEN Some(0) ELSE None,
     activity    |-> IF shape \in {"direct", "both"} THEN Some("walk") ELSE None,
     attributes  |-> IF shape \in {"nested", "both"} THEN Some(AttrFull) ELSE None,
     bbox        |-> <<100000, 200000, 300000, 400000>>,
     keypoints   |-> IF shape = "both" THEN Some(<<1, 2, 3, 4, 5, 6, 7>>) ELSE None]

CategoryIds == {1, 2}

\* Records of the frame-loop specification: every frame shape with direct
\* fields, and every field shape at frame_id 0.
Records ==
    { MkRecord(c, fs, "direct") : c \in CategoryIds, fs \in FrameShapes }
    \cup
    { MkRecord(c, [frame_id |-> Some(0), image_id |-> None], sh) :
          c \in CategoryIds, sh \in FieldShapes }

\* Records of the pipeline specification (few shapes, any pose results).
PipeRecords ==
    { MkRecord(1, [frame_id |-> Some(0), image_id |-> None], "direct"),
      MkRecord(1, [frame_id |-> None, image_id |-> Some(2)], "nested"),
      MkRecord(2, [frame_id |-> Some(0), image_id |-> None], "direct"),
      MkRecord(2, [frame_id |-> None, image_id |-> Some(2)], "nested"),
      MkRecord(2, [frame_id |-> None, image_id |-> Some(1)], "direct") }

SeqsUpTo(S, n) == UNION { [1..m -> S] : m \in 0..n }

\* The `categories` lists of the input document.
CategoryLists ==
    { << [name |-> "person", id |-> 1], [name |-> "car", id |-> 2] >>,
      << [name |-> "car", id |-> 1], [name |-> "person", id |-> 2] >>,
      << [name |-> "car", id |-> 2] >> }

\* ------------------------------------------------------------ pose results
PoseResults ==
    { [track_id |-> 5, category_id |-> 1,
       bbox |-> <<100000, 200000, 400004, 600016, 10000>>,
       keypoints |-> << <<123456, 234564, 9000>>, <<10, 20, 30>> >>,
       occluded |-> Some(1), activity |-> Some("walk")],
      [track_id |-> 6, category_id |-> 2,
       bbox |-> <<0, 0, 10, 10, 10000>>,
       keypoints |-> << <<1, 2, 3>> >>,
       occluded |-> None, activity |-> None] }

PoseLists == SeqsUpTo(PoseResults, MaxPose)

RECURSIVE TotalLen(_)
TotalLen(t) == IF Len(t) = 0 THEN 0 ELSE Len(Head(t)) + TotalLen(Tail(t))

\* The answers of the pose stage for a video of n frames, drawn from P, with
\* at most MaxPose pose results over the whole run.
PoseTapes(n, P) == { t \in [1..n -> P] : TotalLen(t) <= MaxPose }

VARIABLES
    entry,               \* which entry point runs: "inference" or "vis"
    show,                \* args.show
    save_out_video,      \* save_out_video
    json_data,           \* the loaded input document
    num_frames,          \* number of frames the video source can deliver
    pose_outputs,        \* what the pose stage (and smoother) returns, per frame
    pc,                  \* position in main()
    error,               \* "" or the exception that ended the run
    this_person_cat_id,  \* optional: unbound until assigned
    frame_json_id,       \* optional: unbound until assigned
    dict_obj,            \* optional: unbound until assigned
    frame_id,            \* the loop index
    cap_pos,             \* frames delivered by cap.read() so far
    annotations,         \* results['annotations']
    person_results,      \* the observations of the last correlation
    selected,            \* positions of the records behind person_results
    pose_results,        \* pose_results
    output_file,         \* optional: the annotations of the written document
    cap_released,        \* number of cap.release() calls
    writer_released      \* number of videoWriter.release() calls

vars == << entry, show, save_out_video, json_data, num_frames, pose_outputs,
           pc, error, this_person_cat_id, frame_json_id, dict_obj, frame_id,
           cap_pos, annotations, person_results, selected, pose_results,
           output_file, cap_released, writer_released >>

\* ------------------------------------------------- person category lookup
RECURSIVE LastPersonId(_, _, _)
\* The inner loop over categories: the id of the last entry named "person"
\* overwrites `cur`; `cur` is kept when there is none.
LastPersonId(cats, i, cur) ==
    IF i > Len(cats) THEN cur
    ELSE LastPersonId(cats, i + 1,
                      IF cats[i].name = "person" THEN Some(cats[i].id) ELSE cur)

\* The outer loop runs the scan once per annotation, so nothing is assigned
\* when the annotation list is empty.
ResolvePersonCatId(doc) ==
    IF Len(doc.annotations) = 0 THEN None
    ELSE LastPersonId(doc.categories, 1, None)

\* ----------------------------------------------------- frame correlation
\* frame_json_id after the if/elif of a record; `prev` is the value the
\* variable had before (it is left alone when neither key is present).
ResolveFrame_NoOffset(data, prev) ==
    IF Has(data.frame_id) THEN Some(Val(data.frame_id))
    ELSE IF Has(data.image_id) THEN Some(Val(data.image_id))
    ELSE prev

ResolveFrame(data, prev) ==
    IF Has(data.frame_id) THEN Some(Val(data.frame_id))
    ELSE IF Has(data.image_id) THEN Some(Val(data.image_id) - 1)
    ELSE prev

VisResolveFrame(data, prev) ==
    IF Has(data.frame_id) THEN Some(Val(data.frame_id))
    ELSE IF Has(data.image_id) THEN Some(Val(data.image_id) - 1)
    ELSE prev

\* int(x) of a nested occluded value (a JSON boolean).
IntOf(x) == IF x THEN 1 ELSE 0

HasNested(data, key) ==
    Has(data.attributes) /\ Has(Val(data.attributes)[key])

TrackOf_NestedFirst(data) ==
    IF HasNested(data, "track_id")
    THEN Some(Val(Val(data.attributes).track_id))
    ELSE IF Has(data.track_id) THEN Some(Val(data.track_id))
    ELSE None

TrackOf(data) ==
    IF Has(data.track_id) THEN Some(Val(data.track_id))
    ELSE IF HasNested(data, "track_id")
         THEN Some(Val(Val(data.attributes).track_id))
    ELSE None

OccludedOf(data) ==
    IF Has(data.occluded) THEN Some(Val(data.occluded))
    ELSE IF HasNested(data, "occluded")
         THEN Some(IntOf(Val(Val(data.attributes).occluded)))
    ELSE None

ActivityOf(data) ==
    IF Has(data.activity) THEN Val(data.activity)
    ELSE IF HasNested(data, "activity")
         THEN Val(Val(data.attributes).activity)
    ELSE ""

\* (x, y, w, h) -> (x, y, x+w, y+h, 1.0)
ToXyxy(b) == << b[1], b[2], b[1] + b[3], b[2] + b[4], 10000 >>

\* The person observation of the inference entry point.
PersonOf(data) ==
    [activity    |-> ActivityOf(data),
     track_id    |-> TrackOf(data),
     occluded    |-> OccludedOf(data),
     bbox        |-> ToXyxy(data.bbox),
     category_id |-> 1]

RECURSIVE Threewise(_)
\* zip(a, a, a): consecutive triples, an incomplete tail is dropped.
Threewise(s) ==
    IF Len(s) < 3 THEN << >>
    ELSE << <<s[1], s[2], s[3]>> >> \o Threewise(SubSeq(s, 4, Len(s)))

\* The person observation of the visualization entry point.
VisPersonOf(data, k) ==
    [activity    |-> ActivityOf(data),
     track_id    |-> TrackOf(data),
     occluded    |-> OccludedOf(data),
     category_id |-> 1,
     bbox        |-> ToXyxy(data.bbox),
     frame_id    |-> k,
     keypoints   |-> IF Has(data.keypoints)
                     THEN Threewise(Val(data.keypoints)) ELSE << >>]

RECURSIVE Correlate(_, _, _, _, _, _)
\* The loop over json_data["annotations"] of one frame, from record i on.
\* st = [fj: frame_json_id, persons, sel, err]; err names the exception
\* that ended the loop, "" when it ran to its end.
Correlate(e, anns, i, k, pid, st) ==
    IF i > Len(anns) \/ st.err # "" THEN st
    ELSE LET data == anns[i]
             fj   == IF e = "inference" THEN ResolveFrame(data, st.fj)
                                        ELSE VisResolveFrame(data, st.fj)
         IN  IF ~Has(fj)
             THEN [st EXCEPT !.err = "NameError: frame_json_id"]
             ELSE IF k # Val(fj)
             THEN Correlate(e, anns, i + 1, k, pid, [st EXCEPT !.fj = fj])
             ELSE IF ~Has(pid)
             THEN [st EXCEPT !.fj = fj, !.err = "NameError: this_person_cat_id"]
             ELSE IF data.category_id # Val(pid)
             THEN Correlate(e, anns, i + 1, k, pid, [st EXCEPT !.fj = fj])
             ELSE Correlate(e, anns, i + 1, k, pid,
                     [st EXCEPT !.fj = fj,
                                !.persons = Append(@, IF e = "inference"
                                                      THEN PersonOf(data)
                                                      ELSE VisPersonOf(data, k)),
                                !.sel = Append(@, i)])

CorrErrors == {"NameError: frame_json_id", "NameError: this_person_cat_id"}

\* --------------------------------------------------- non-person passthrough
PassTrack(data) ==
    IF Has(data.track_id) THEN Some(Val(data.track_id))
    ELSE IF HasNested(data, "track_id")
         THEN Some(Val(Val(data.attributes).track_id))
    ELSE None                      \* KeyError

PassFrame_ZeroBased(data) ==
    IF Has(data.frame_id) THEN Some(Val(data.frame_id))
    ELSE IF HasNested(data, "image_id")
         THEN Some(Val(Val(data.attributes).image_id) - 1)
    ELSE None

PassFrame(data) ==
    IF Has(data.frame_id) THEN Some(Val(data.frame_id))
    ELSE IF HasNested(data, "image_id")
         THEN Some(Val(Val(data.attributes).image_id))
    ELSE None                      \* KeyError

PassEntry(data) ==
    [track_id    |-> Val(PassTrack(data)),
     frame_id    |-> Val(PassFrame(data)),
     bbox        |-> data.bbox,
     occluded    |-> IF Has(data.occluded) THEN Val(data.occluded) ELSE 0,
     category_id |-> data.category_id]

RECURSIVE Passthrough(_, _, _, _)
\* st = [anns: results['annotations'], obj: dict_obj, err]
Passthrough(anns, i, pid, st) ==
    IF i > Len(anns) \/ st.err # "" THEN st
    ELSE LET data == anns[i]
         IN  IF ~Has(pid)
             THEN [st EXCEPT !.err = "NameError: this_person_cat_id"]
             ELSE IF data.category_id = Val(pid)
             THEN Passthrough(anns, i + 1, pid, st)
             ELSE IF ~Has(PassTrack(data)) \/ ~Has(PassFrame(data))
             THEN [st EXCEPT !.err = "KeyError"]
             ELSE Passthrough(anns, i + 1, pid,
                     [st EXCEPT !.anns = Append(@, PassEntry(data)),
                                !.obj  = Some(PassEntry(data))])

\* ------------------------------------------------------------ result encoder
\* round(v, 3) on a value counted in units of 10^-4 (ties to even).
Round3(v) ==
    LET q == v \div 10
        r == v % 10
    IN  IF r < 5 THEN q * 10
        ELSE IF r > 5 THEN (q + 1) * 10
        ELSE IF q % 2 = 0 THEN q * 10 ELSE (q + 1) * 10

RECURSIVE Flatten(_)
Flatten(kps) ==
    IF Len(kps) = 0 THEN << >> ELSE Head(kps) \o Flatten(Tail(kps))

RoundAll(s) == [j \in 1..Len(s) |-> Round3(s[j])]

EncodeEntry(p, k) ==
    [track_id    |-> p.track_id,
     frame_id    |-> k,
     keypoints   |-> RoundAll(Flatten(p.keypoints)),
     bbox        |-> << p.bbox[1], p.bbox[2],
                        Round3(p.bbox[3] - p.bbox[1]),
                        Round3(p.bbox[4] - p.bbox[2]) >>,
     occluded    |-> IF Has(p.occluded) THEN Val(p.occluded) ELSE 0,
     activity    |-> p.activity,
     category_id |-> 1]

\* dict_obj after the `if` of one pose result: rebuilt for category 1,
\* otherwise whatever it was before.
EncodeObj(p, k, obj) ==
    IF p.category_id = 1 THEN Some(EncodeEntry(p, k)) ELSE obj

RECURSIVE Encode_EmptyAppends(_, _, _, _)
Encode_EmptyAppends(prs, i, k, st) ==
    IF Len(prs) = 0
    THEN IF Has(st.obj) THEN [st EXCEPT !.anns = Append(@, Val(st.obj))]
         ELSE [st EXCEPT !.err = "NameError: dict_obj"]
    ELSE IF i > Len(prs) \/ st.err # "" THEN st
    ELSE LET obj == EncodeObj(prs[i], k, st.obj)
         IN  IF ~Has(obj)
             THEN [st EXCEPT !.err = "NameError: dict_obj"]
             ELSE Encode_EmptyAppends(prs, i + 1, k,
                     [st EXCEPT !.anns = Append(@, Val(obj)), !.obj = obj])

RECURSIVE Encode(_, _, _, _)
\* The loop over pose_results of one frame; the append is outside the `if`.
Encode(prs, i, k, st) ==
    IF i > Len(prs) \/ st.err # "" THEN st
    ELSE LET obj == EncodeObj(prs[i], k, st.obj)
         IN  IF ~Has(obj)
             THEN [st EXCEPT !.err = "NameError: dict_obj"]
             ELSE Encode(prs, i + 1, k,
                     [st EXCEPT !.anns = Append(@, Val(obj)), !.obj = obj])

\* -------------------------------------------------------------- initial state
\* Line 81 / 58: at least one of --show and --out-video-root is given.
Modes == { m \in [show : BOOLEAN, save : BOOLEAN] : m.show \/ m.save }

Docs(R) == [annotations : SeqsUpTo(R, MaxAnns), categories : CategoryLists]

\* The state when the input JSON is about to be read: the video source is
\* open, the sink is created when requested, every local of main() that is
\* assigned later is still unbound.
InitWith(D, P) ==
    /\ entry \in {"inference", "vis"}
    /\ \E m \in Modes : show = m.show /\ save_out_video = m.save
    /\ json_data \in D
    /\ num_frames \in 0..MaxFrames
    /\ pose_outputs \in PoseTapes(num_frames,
                                  IF entry = "inference" THEN P ELSE {<< >>})
    /\ pc = "load"
    /\ error = ""
    /\ this_person_cat_id = None
    /\ frame_json_id = None
    /\ dict_obj = None
    /\ frame_id = 0
    /\ cap_pos = 0
    /\ annotations = << >>
    /\ person_results = << >>
    /\ selected = << >>
    /\ pose_results = << >>
    /\ output_file = None
    /\ cap_released = 0
    /\ writer_released = 0

Init == InitWith(Docs(PipeRecords), PoseLists)

InitCorr == InitWith(Docs(Records), {<< >>})

\* ------------------------------------------------------------------ actions
\* json.load and the nested loop that looks up the "person" category.
LoadJson ==
    /\ pc = "load"
    /\ this_person_cat_id' = ResolvePersonCatId(json_data)
    /\ pc' = IF entry = "inference" THEN "passthrough" ELSE "loop"
    /\ UNCHANGED << entry, show, save_out_video, json_data, num_frames,
                    pose_outputs, error, frame_json_id, dict_obj, frame_id,
                    cap_pos, annotations, person_results, selected,
                    pose_results, output_file, cap_released, writer_released >>

\* "put data from other objects then person to the result"
NonPersonPassthrough ==
    /\ pc = "passthrough"
    /\ LET st == Passthrough(json_data.annotations, 1, this_person_cat_id,
                             [anns |-> annotations, obj |-> dict_obj, err |-> ""])
       IN  /\ annotations' = st.anns
           /\ dict_obj' = st.obj
           /\ error' = st.err
           /\ pc' = IF st.err = "" THEN "loop" ELSE "error"
    /\ UNCHANGED << entry, show, save_out_video, json_data, num_frames,
                    pose_outputs, this_person_cat_id, frame_json_id, frame_id,
                    cap_pos, person_results, selected, pose_results,
                    output_file, cap_released, writer_released >>

\* cap.read() returns flag == False: the loop is left.
EndOfStream ==
    /\ pc = "loop"
    /\ cap_pos >= num_frames
    /\ pc' = IF entry = "inference" THEN "write" ELSE "release"
    /\ UNCHANGED << entry, show, save_out_video, json_data, num_frames,
                    pose_outputs, error, this_person_cat_id, frame_json_id,
                    dict_obj, frame_id, cap_pos, annotations, person_results,
                    selected, pose_results, output_file, cap_released,
                    writer_released >>

\* One iteration of the frame loop of the inference entry point: read,
\* correlate, pose stage, encode, display/write, stop check, increment.
\* q: the 'q' key is seen by cv2.waitKey (only looked at with --show).
ProcessFrame ==
    /\ pc = "loop"
    /\ entry = "inference"
    /\ cap_pos < num_frames
    /\ cap_pos' = cap_pos + 1
    /\ \E q \in (IF show THEN BOOLEAN ELSE {FALSE}) :
         LET co == Correlate(entry, json_data.annotations, 1, frame_id,
                             this_person_cat_id,
                             [fj |-> frame_json_id, persons |-> << >>,
                              sel |-> << >>, err |-> ""])
             prs == pose_outputs[frame_id + 1]
             en == Encode(prs, 1, frame_id,
                          [anns |-> annotations, obj |-> dict_obj, err |-> ""])
         IN  /\ frame_json_id' = co.fj
             /\ person_results' = co.persons
             /\ selected' = co.sel
             /\ IF co.err # ""
                THEN /\ error' = co.err
                     /\ pc' = "error"
                     /\ UNCHANGED << pose_results, annotations, dict_obj, frame_id >>
                ELSE /\ pose_results' = prs
                     /\ annotations' = en.anns
                     /\ dict_obj' = en.obj
                     /\ error' = en.err
                     /\ pc' = IF en.err # "" THEN "error"
                              ELSE IF q THEN "write" ELSE "loop"
                     /\ frame_id' = IF en.err # "" \/ q THEN frame_id
                                    ELSE frame_id + 1
    /\ UNCHANGED << entry, show, save_out_video, json_data, num_frames,
                    pose_outputs, this_person_cat_id, output_file,
                    cap_released, writer_released >>

\* One iteration of the frame loop of the visualization entry point.
VisProcessFrame ==
    /\ pc = "loop"
    /\ entry = "vis"
    /\ cap_pos < num_frames
    /\ cap_pos' = cap_pos + 1
    /\ \E q \in (IF show THEN BOOLEAN ELSE {FALSE}) :
         LET co == Correlate(entry, json_data.annotations, 1, frame_id,
                             this_person_cat_id,
                             [fj |-> frame_json_id, persons |-> << >>,
                              sel |-> << >>, err |-> ""])
         IN  /\ frame_json_id' = co.fj
             /\ person_results' = co.persons
             /\ selected' = co.sel
             /\ pose_results' = co.persons
             /\ error' = co.err
             /\ pc' = IF co.err # "" THEN "error"
                      ELSE IF q THEN "release" ELSE "loop"
             /\ frame_id' = IF co.err # "" \/ q THEN frame_id ELSE frame_id + 1
    /\ UNCHANGED << entry, show, save_out_video, json_data, num_frames,
                    pose_outputs, this_person_cat_id, dict_obj, annotations,
                    output_file, cap_released, writer_released >>

\* open(output_file_path, "w") and json.dump; ok = FALSE: open() raises.
WriteOutput ==
    /\ pc = "write"
    /\ \E ok \in BOOLEAN :
         /\ output_file' = IF ok THEN Some(annotations) ELSE output_file
         /\ error' = IF ok THEN "" ELSE "OSError"
         /\ pc' = IF ok THEN "release" ELSE "error"
    /\ UNCHANGED << entry, show, save_out_video, json_data, num_frames,
                    pose_outputs, this_person_cat_id, frame_json_id, dict_obj,
                    frame_id, cap_pos, annotations, person_results, selected,
                    pose_results, cap_released, writer_released >>

\* cap.release(), videoWriter.release() when saving, destroyAllWindows.
Release ==
    /\ pc = "release"
    /\ cap_released' = cap_released + 1
    /\ writer_released' = IF save_out_video THEN writer_released + 1
                          ELSE writer_released
    /\ pc' = "done"
    /\ UNCHANGED << entry, show, save_out_video, json_data, num_frames,
                    pose_outputs, error, this_person_cat_id, frame_json_id,
                    dict_obj, frame_id, cap_pos, annotations, person_results,
                    selected, pose_results, output_file >>

Next ==
    \/ LoadJson
    \/ NonPersonPassthrough
    \/ EndOfStream
    \/ ProcessFrame
    \/ VisProcessFrame
    \/ WriteOutput
    \/ Release

Spec == Init /\ [][Next]_vars

SpecCorr == InitCorr /\ [][Next]_vars

\* ================================================================= claims
InSeq(x, s) == \E j \in 1..Len(s) : s[j] = x

\* The frame loop has run its correlation step to the end at least once;
\* the last frame it ran for is cap_pos - 1.
Correlated == cap_pos > 0 /\ error \notin CorrErrors
LastFrame == cap_pos - 1

HasFrameKey(d) == Has(d.frame_id) \/ Has(d.image_id)

\* The frame index a record declares, as the specification states it.
Declared(d) == IF Has(d.frame_id) THEN Val(d.frame_id) ELSE Val(d.image_id) - 1

\* C1: after the correlation step for frame k, every record with a frame_id
\* resolves to frame_id (image_id is ignored), every record with only an
\* image_id resolves to image_id - 1, and a person record with either key is
\* among the selected records exactly when that index equals k; the loop
\* variable frame_json_id holds the index of the last record that has a key.
C1_FrameResolution ==
    (Correlated /\ Has(this_person_cat_id)) =>
        LET anns == json_data.annotations
            keyed == { i \in 1..Len(anns) : HasFrameKey(anns[i]) }
        IN  /\ \A i \in keyed :
                 anns[i].category_id = Val(this_person_cat_id) =>
                     (InSeq(i, selected) <=> Declared(anns[i]) = LastFrame)
            /\ \A i \in keyed :
                 anns[i].category_id # Val(this_person_cat_id) =>
                     ~InSeq(i, selected)
            /\ keyed # {} =>
                 LET last == CHOOSE i \in keyed : \A j \in keyed : j <= i
                 IN  frame_json_id = Some(Declared(anns[last]))

\* A record that has only image_id = 2 was selected for frame 1 by the
\* inference entry point.
C1_Witness ==
    /\ Correlated /\ Has(this_person_cat_id)
    /\ entry = "inference"
    /\ LastFrame = 1
    /\ \E j \in 1..Len(selected) :
         LET d == json_data.annotations[selected[j]]
         IN  ~Has(d.frame_id) /\ d.image_id = Some(2)

\* C6 (as claimed): a record with neither frame_id nor image_id is never
\* selected, and never ends the run.
C6_KeylessSkipped ==
    /\ error # "NameError: frame_json_id"
    /\ Correlated =>
         \A j \in 1..Len(selected) :
             HasFrameKey(json_data.annotations[selected[j]])

\* C9: every person observation takes track_id, occluded and activity from
\* the direct key when the record has it, and from attributes only when the
\* direct key is absent.
C9_DirectWins ==
    Correlated =>
        \A j \in 1..Len(person_results) :
            LET d == json_data.annotations[selected[j]]
                p == person_results[j]
                a == Val(d.attributes)
            IN  /\ Has(d.track_id) => p.track_id = d.track_id
                /\ Has(d.occluded) => p.occluded = d.occluded
                /\ Has(d.activity) => p.activity = Val(d.activity)
                /\ (~Has(d.track_id) /\ HasNested(d, "track_id"))
                       => p.track_id = a.track_id
                /\ (~Has(d.occluded) /\ HasNested(d, "occluded"))
                       => p.occluded = Some(IF Val(a.occluded) THEN 1 ELSE 0)
                /\ (~Has(d.activity) /\ HasNested(d, "activity"))
                       => p.activity = Val(a.activity)

\* An observation was built from a record that has all three fields both
\* directly and under attributes, with different values.
C9_Witness ==
    /\ Correlated
    /\ \E j \in 1..Len(person_results) :
         LET d == json_data.annotations[selected[j]]
         IN  /\ Has(d.track_id) /\ HasNested(d, "track_id")
             /\ Val(d.attributes).track_id # d.track_id
             /\ Has(d.occluded) /\ HasNested(d, "occluded")
             /\ Has(d.activity) /\ HasNested(d, "activity")
             /\ person_results[j].track_id = d.track_id

\* ---- the inference entry point
\* A step that is one iteration of the inference frame loop in which the
\* pose stage was reached.
FrameStep ==
    /\ pc = "loop" /\ entry = "inference"
    /\ cap_pos' = cap_pos + 1
    /\ error' \notin CorrErrors

RECURSIVE CountPersons(_)
CountPersons(prs) ==
    IF Len(prs) = 0 THEN 0
    ELSE (IF Head(prs).category_id = 1 THEN 1 ELSE 0) + CountPersons(Tail(prs))

\* C2 (as claimed): an iteration appends as many annotations as the pose
\* stage returned results of category 1.
C2_AppendsPersonsOnly ==
    [][FrameStep =>
         Len(annotations') =
             Len(annotations) + CountPersons(pose_outputs[frame_id + 1])]_vars

\* A step that is one iteration in which the pose stage returned no result.
EmptyFrameStep == FrameStep /\ pose_outputs[frame_id + 1] = << >>

\* C3 (as claimed): after an iteration with no pose result there is no
\* error, the annotations are the same, and the loop reads on with the frame
\* index one higher.
C3_EmptyFrameContinues ==
    [][EmptyFrameStep =>
         /\ error' = ""
         /\ annotations' = annotations
         /\ pc' = "loop"
         /\ frame_id' = frame_id + 1]_vars

\* C3 (amended): after an iteration with no pose result there is no error
\* and the annotations are the same; the loop reads on with the frame index
\* one higher, unless --show is set and the stop key ended the loop in that
\* iteration (then the index stays and the output is written).
C3_EmptyFrameContinuesUnlessStopped ==
    [][EmptyFrameStep =>
         /\ error' = ""
         /\ annotations' = annotations
         /\ \/ pc' = "loop" /\ frame_id' = frame_id + 1
            \/ show /\ pc' = "write" /\ frame_id' = frame_id]_vars

\* The loop is about to read again after an iteration without pose results
\* that left a non-empty collection as it was.
C3_Witness ==
    /\ entry = "inference" /\ pc = "loop" /\ error = ""
    /\ cap_pos > 0 /\ frame_id = cap_pos
    /\ pose_outputs[cap_pos] = << >>
    /\ pose_results = << >>
    /\ Len(annotations) > 0

IsNonPerson(d) == d.category_id # Val(this_person_cat_id)

\* C4 (as claimed): the written document has as many non-person annotations
\* as the input has non-person records.
C4_NonPersonCardinality ==
    (Has(output_file) /\ Has(this_person_cat_id)) =>
        Cardinality({ j \in 1..Len(Val(output_file)) :
                          IsNonPerson(Val(output_file)[j]) })
          = Cardinality({ i \in 1..Len(json_data.annotations) :
                          IsNonPerson(json_data.annotations[i]) })

\* What the specification says the output holds for a non-person record.
Carried(d) ==
    [track_id    |-> IF Has(d.track_id) THEN Val(d.track_id)
                     ELSE Val(Val(d.attributes).track_id),
     frame_id    |-> IF Has(d.frame_id) THEN Val(d.frame_id)
                     ELSE Val(Val(d.attributes).image_id),
     bbox        |-> d.bbox,
     occluded    |-> IF Has(d.occluded) THEN Val(d.occluded) ELSE 0,
     category_id |-> d.category_id]

PersonDerived(e) == "keypoints" \in DOMAIN e

PassthroughFirst(out) ==
    LET np == SelectSeq(json_data.annotations, IsNonPerson)
    IN  /\ Len(out) >= Len(np)
        /\ \A j \in 1..Len(np) : out[j] = Carried(np[j])
        /\ \A i, j \in 1..Len(out) :
             (PersonDerived(out[i]) /\ ~PersonDerived(out[j])) => j < i

\* C5: once the passthrough has run, and in the written document, the
\* collection starts with one entry per non-person record, in input order,
\* carrying track id, frame id, bbox, occluded and category_id, and no entry
\* built from a pose result comes before an entry that is not.
C5_PassthroughFirst ==
    /\ (entry = "inference" /\ pc \in {"loop", "write", "release", "done"}
          /\ Has(this_person_cat_id)) => PassthroughFirst(annotations)
    /\ (Has(output_file) /\ Has(this_person_cat_id))
          => PassthroughFirst(Val(output_file))

\* A written document that holds a non-person entry taken from the nested
\* fallback and, after it, an entry built from a pose result.
C5_Witness ==
    /\ Has(output_file) /\ Has(this_person_cat_id)
    /\ \E i, j \in 1..Len(Val(output_file)) :
         /\ i < j
         /\ ~PersonDerived(Val(output_file)[i])
         /\ Val(output_file)[i].track_id = 7
         /\ PersonDerived(Val(output_file)[j])

\* C7 (as claimed): once the run has ended after the frame loop, normally or
\* because writing the output raised, the source was released once, and the
\* sink once when an output video was requested.
C7_ReleasedOnEveryExit ==
    /\ cap_released <= 1 /\ writer_released <= 1
    /\ (pc = "done" \/ (pc = "error" /\ error = "OSError")) =>
         /\ cap_released = 1
         /\ save_out_video => writer_released = 1

NoPersonCategory ==
    \A i \in 1..Len(json_data.categories) :
        json_data.categories[i].name # "person"

\* C8 (as claimed): without a "person" category no frame is read and no
\* output is written.
C8_NoPersonFailsFast ==
    NoPersonCategory => (cap_pos = 0 /\ output_file = None /\ pc # "done")

\* C10 (as claimed): an iteration for frame k only appends, and every entry
\* it appends has frame_id k.
C10_AppendedCarryLoopIndex ==
    [][FrameStep =>
         /\ Len(annotations') >= Len(annotations)
         /\ SubSeq(annotations', 1, Len(annotations)) = annotations
         /\ \A j \in (Len(annotations) + 1)..Len(annotations') :
              annotations'[j].frame_id = frame_id]_vars

====
